---- MODULE Spec2Model ----
(***************************************************************************)
(* Document ingestion, classification and text extraction.                 *)
(*                                                                         *)
(*   orchestrator_service.py  get_generic_doc_type (MIME based classifier) *)
(*   receiver_service.py      ReceiverService (blob listing -> Document)   *)
(*   extractor_service.py     ExtractorService (Document -> text/entities) *)
(*   azure_storage.py         AzureStorageManager.upload_file              *)
(*   models.py                Document                                     *)
(*                                                                         *)
(* Python strings are sequences of one-character strings, so that lower(), *)
(* startswith(), "in" and os.path.splitext are computed, not assumed.      *)
(***************************************************************************)
EXTENDS Integers, Sequences, FiniteSets, TLC

VARIABLES
    cMime,      \* classifier probe: the mime_type argument
    cFile,      \* classifier probe: the filename argument
    cOut,       \* classifier probe: the value returned, NotCalled before the call
    cBlob,      \* classifier probe: the value ReceiverService.get_generic_doc_type
                \* returned for the filename, NotCalled before the call
    xKind,      \* extraction probe: doc.doc_type of the document
    xFile,      \* extraction probe: the file at local_file_path
    xOut,       \* extraction probe: the text of the dispatch, NotExtracted before
    container,  \* Azure container: sequence of blobs [name, content]
    documents,  \* committed rows of requirementsbits.documents, in insertion order
    rcv,        \* the ReceiverService.process_session_documents call in progress
    ext,        \* per session: the ExtractorService.process_session_documents call
    temp,       \* the local directory "temp": set of files [name, content]
    tempDir,    \* whether the directory "temp" exists
    ingested    \* per session: the last call of the receiver for it that
                \* returned had no error entry, and no blob was added since

vars == <<cMime, cFile, cOut, cBlob, xKind, xFile, xOut,
          container, documents, rcv, ext, temp, tempDir, ingested>>

classifierVars == <<cMime, cFile, cOut, cBlob>>
extractVars == <<xKind, xFile, xOut>>
probeVars == <<classifierVars, extractVars>>
pipelineVars == <<container, documents, rcv, ext, temp, tempDir, ingested>>

----------------------------------------------------------------------------
(* String literals of the sources, and the inputs the checks draw from.    *)

L_email == <<"e", "m", "a", "i", "l">>
L_Email_ == <<"E", "m", "a", "i", "l", "_">>
L_pdf == <<"p", "d", "f">>
L_word == <<"w", "o", "r", "d">>
L_wordprocessing == <<"w", "o", "r", "d", "p", "r", "o", "c", "e", "s", "s", "i", "n", "g">>
L_msword == <<"m", "s", "w", "o", "r", "d">>
L_wordprocessingml == <<"o", "p", "e", "n", "x", "m", "l", "f", "o", "r", "m", "a", "t", "s", "-", "o", "f", "f", "i", "c", "e", "d", "o", "c", "u", "m", "e", "n", "t", ".", "w", "o", "r", "d", "p", "r", "o", "c", "e", "s", "s", "i", "n", "g", "m", "l">>
L_image_ == <<"i", "m", "a", "g", "e", "/">>
L_jpeg == <<"j", "p", "e", "g">>
L_jpg == <<"j", "p", "g">>
L_png == <<"p", "n", "g">>
L_gif == <<"g", "i", "f">>
L_bmp == <<"b", "m", "p">>
L_tiff == <<"t", "i", "f", "f">>
L_text_ == <<"t", "e", "x", "t", "/">>
L_application_txt == <<"a", "p", "p", "l", "i", "c", "a", "t", "i", "o", "n", "/", "t", "x", "t">>
L_octet_stream == <<"a", "p", "p", "l", "i", "c", "a", "t", "i", "o", "n", "/", "o", "c", "t", "e", "t", "-", "s", "t", "r", "e", "a", "m">>
X_pdf == <<".", "p", "d", "f">>
X_doc == <<".", "d", "o", "c">>
X_docx == <<".", "d", "o", "c", "x">>
X_txt == <<".", "t", "x", "t">>
X_jpg == <<".", "j", "p", "g">>
X_jpeg == <<".", "j", "p", "e", "g">>
X_png == <<".", "p", "n", "g">>
X_gif == <<".", "g", "i", "f">>
X_jfif == <<".", "j", "f", "i", "f">>
X_eml == <<".", "e", "m", "l">>
M_application_pdf == <<"a", "p", "p", "l", "i", "c", "a", "t", "i", "o", "n", "/", "p", "d", "f">>
M_APPLICATION_PDF == <<"A", "p", "p", "l", "i", "c", "a", "t", "i", "o", "n", "/", "P", "D", "F">>
M_image_jpeg == <<"i", "m", "a", "g", "e", "/", "j", "p", "e", "g">>
M_image_webp == <<"i", "m", "a", "g", "e", "/", "w", "e", "b", "p">>
M_msword == <<"a", "p", "p", "l", "i", "c", "a", "t", "i", "o", "n", "/", "m", "s", "w", "o", "r", "d">>
M_text_plain == <<"t", "e", "x", "t", "/", "p", "l", "a", "i", "n">>
M_x_text == <<"a", "p", "p", "l", "i", "c", "a", "t", "i", "o", "n", "/", "x", "-", "t", "e", "x", "t", "/", "p", "l", "a", "i", "n">>
M_zip == <<"a", "p", "p", "l", "i", "c", "a", "t", "i", "o", "n", "/", "z", "i", "p">>
M_EMAIL == <<"E", "m", "a", "i", "l">>
F_Email_1_txt == <<"E", "m", "a", "i", "l", "_", "1", ".", "t", "x", "t">>
F_email_1_txt == <<"e", "m", "a", "i", "l", "_", "1", ".", "t", "x", "t">>
F_Email_ == <<"E", "m", "a", "i", "l", "_">>
F_a_pdf == <<"a", ".", "p", "d", "f">>
F_report_docx == <<"r", "e", "p", "o", "r", "t", ".", "d", "o", "c", "x">>
F_notes_xyz == <<"n", "o", "t", "e", "s", ".", "x", "y", "z">>
F_c_txt == <<"c", ".", "t", "x", "t">>
F_x_PNG == <<"x", ".", "P", "N", "G">>
F_b_eml == <<"b", ".", "e", "m", "l">>
F_dot_pdf == <<".", "p", "d", "f">>
F_noext == <<"n", "o", "e", "x", "t">>
F_m_jfif == <<"m", ".", "j", "f", "i", "f">>
F_old_doc == <<"o", "l", "d", ".", "d", "o", "c">>
F_dir_a_pdf == <<"v", "1", ".", "0", "/", "a">>
S_s1 == <<"s", "1">>
S_s2 == <<"s", "2">>
F_b_docx == <<"b", ".", "d", "o", "c", "x">>
F_d_bin == <<"d", ".", "b", "i", "n">>

\* Python's None, for an argument that is absent.
None == <<"None">>

\* The probe has not called the classifier yet.
NotCalled == "NOT_CALLED"

Kinds == {"PDF", "WORD", "IMAGE", "TEXT", "EMAIL", "OTHER"}

MimeInputs ==
    { None, <<>>, L_email, M_EMAIL, L_octet_stream, L_application_txt,
      M_application_pdf, M_APPLICATION_PDF, M_image_jpeg, M_image_webp,
      M_msword, L_wordprocessingml, M_text_plain, M_x_text, M_zip }

FileInputs ==
    { None, <<>>, F_Email_1_txt, F_email_1_txt, F_Email_, F_a_pdf,
      F_report_docx, F_notes_xyz, F_c_txt, F_x_PNG, F_b_eml, F_dot_pdf,
      F_noext, F_m_jfif, F_old_doc, F_dir_a_pdf, F_d_bin }

----------------------------------------------------------------------------
(* Python string operations.                                               *)

UpperCase == <<"A","B","C","D","E","F","G","H","I","J","K","L","M",
               "N","O","P","Q","R","S","T","U","V","W","X","Y","Z">>
LowerCase == <<"a","b","c","d","e","f","g","h","i","j","k","l","m",
               "n","o","p","q","r","s","t","u","v","w","x","y","z">>

LowerChar(c) ==
    IF \E i \in 1..Len(UpperCase) : UpperCase[i] = c
    THEN LowerCase[CHOOSE i \in 1..Len(UpperCase) : UpperCase[i] = c]
    ELSE c

\* str.lower()
Lower(s) == [i \in 1..Len(s) |-> LowerChar(s[i])]

\* bool(x) of an optional string: None and '' are falsy
Truthy(x) == x # None /\ x # <<>>

\* s.startswith(p)
StartsWith(s, p) == Len(p) <= Len(s) /\ SubSeq(s, 1, Len(p)) = p

\* sub in s
Contains(sub, s) ==
    \E i \in 0..(Len(s) - Len(sub)) : SubSeq(s, i + 1, i + Len(sub)) = sub

\* s.rfind(c) for a one-character c, 1-based; 0 when c does not occur
RFind(c, s) ==
    IF \E i \in 1..Len(s) : s[i] = c
    THEN CHOOSE i \in 1..Len(s) : s[i] = c /\ \A j \in (i+1)..Len(s) : s[j] # c
    ELSE 0

\* os.path.splitext(p)[1]: the part from the last dot of the last path
\* component, unless only dots precede it in that component
SplitExt(p) ==
    LET sepIndex == RFind("/", p)
        dotIndex == RFind(".", p)
    IN  IF /\ dotIndex > sepIndex
           /\ \E k \in (sepIndex + 1)..(dotIndex - 1) : p[k] # "."
        THEN SubSeq(p, dotIndex, Len(p))
        ELSE <<>>

\* os.path.basename(p)
BaseName(p) == SubSeq(p, RFind("/", p) + 1, Len(p))

----------------------------------------------------------------------------
(* orchestrator_service.get_generic_doc_type(mime_type, filename)          *)

\* extension_mapping.get(ext, 'OTHER') of the MIME based classifier
MimeExtensionMappingNoDefault(e) ==
    CASE e = X_pdf -> "PDF"
      [] e = X_doc -> "WORD"
      [] e = X_docx -> "WORD"
      [] e = X_txt -> "TEXT"
      [] e = X_jpg -> "IMAGE"
      [] e = X_jpeg -> "IMAGE"
      [] e = X_png -> "IMAGE"
      [] e = X_gif -> "IMAGE"
      [] e = X_jfif -> "IMAGE"
      [] e = X_eml -> "EMAIL"
      [] OTHER -> "None"

MimeExtensionMapping(e) ==
    CASE e = X_pdf -> "PDF"
      [] e = X_doc -> "WORD"
      [] e = X_docx -> "WORD"
      [] e = X_txt -> "TEXT"
      [] e = X_jpg -> "IMAGE"
      [] e = X_jpeg -> "IMAGE"
      [] e = X_png -> "IMAGE"
      [] e = X_gif -> "IMAGE"
      [] e = X_jfif -> "IMAGE"
      [] e = X_eml -> "EMAIL"
      [] OTHER -> "OTHER"

\* mime_type.lower() if mime_type else ''
NormMime(mime_type) == IF Truthy(mime_type) THEN Lower(mime_type) ELSE <<>>

IsEmailRule(mt, filename) ==
    mt = L_email \/ (Truthy(filename) /\ StartsWith(filename, L_Email_))

IsPdfRuleExact(mt) == mt = L_pdf

IsPdfRule(mt) == Contains(L_pdf, mt)

IsWordRule(mt) ==
    \E w \in {L_word, L_wordprocessing, L_msword, L_wordprocessingml} :
        Contains(w, mt)

IsImageRule(mt) ==
    \E g \in {L_image_, L_jpeg, L_jpg, L_png, L_gif, L_bmp, L_tiff} :
        Contains(g, mt)

IsTextRuleStartsWith(mt) == StartsWith(mt, L_text_) \/ mt = L_application_txt

IsTextRule(mt) == Contains(L_text_, mt) \/ mt = L_application_txt

UsesExtension(mt, filename) ==
    Truthy(filename) /\ (mt = L_octet_stream \/ mt = <<>>)

get_generic_doc_type(mime_type, filename) ==
    LET mt == NormMime(mime_type)
    IN  IF IsEmailRule(mt, filename) THEN "EMAIL"
        ELSE IF IsPdfRule(mt) THEN "PDF"
        ELSE IF IsWordRule(mt) THEN "WORD"
        ELSE IF IsImageRule(mt) THEN "IMAGE"
        ELSE IF IsTextRule(mt) THEN "TEXT"
        ELSE IF UsesExtension(mt, filename)
             THEN MimeExtensionMapping(SplitExt(Lower(filename)))
        ELSE "OTHER"

----------------------------------------------------------------------------
(* receiver_service.ReceiverService.get_generic_doc_type(blob_name)        *)

\* lines 30-41 with the '.txt' entry of the other table
ReceiverExtensionMappingTxtText(e) ==
    CASE e = X_pdf -> "PDF"
      [] e = X_doc -> "WORD"
      [] e = X_docx -> "WORD"
      [] e = X_txt -> "TEXT"
      [] e = X_jpg -> "IMAGE"
      [] e = X_jpeg -> "IMAGE"
      [] e = X_png -> "IMAGE"
      [] e = X_gif -> "IMAGE"
      [] e = X_jfif -> "IMAGE"
      [] e = X_eml -> "EMAIL"
      [] OTHER -> "OTHER"

ReceiverExtensionMapping(e) ==
    CASE e = X_pdf -> "PDF"
      [] e = X_doc -> "WORD"
      [] e = X_docx -> "WORD"
      [] e = X_txt -> "EMAIL"
      [] e = X_jpg -> "IMAGE"
      [] e = X_jpeg -> "IMAGE"
      [] e = X_png -> "IMAGE"
      [] e = X_gif -> "IMAGE"
      [] e = X_jfif -> "IMAGE"
      [] e = X_eml -> "EMAIL"
      [] OTHER -> "OTHER"

ReceiverService_get_generic_doc_type(blob_name) ==
    ReceiverExtensionMapping(SplitExt(Lower(blob_name)))

----------------------------------------------------------------------------
(* The pipeline's data.                                                    *)

\* SQL NULL of a String column (models.py: extracted_text, entity_list)
Null == <<"NULL">>

SessionIds == {S_s1, S_s2}

\* File names uploaded to a session folder.
UploadNames == {F_a_pdf, F_b_docx, F_c_txt, F_d_bin}

\* A page of a PDF whose text extraction fails.
BadPart == <<"BAD">>

\* What a stored file holds, by what each reader makes of it:
\*   parse   the structured readers (PyPDF2, python-docx, PIL) can open it
\*   decode  open(path, "r").read() can decode it
\*   parts   its pages / paragraphs / text, in order
GoodFile == [parse |-> TRUE, decode |-> TRUE, parts |-> << <<"h", "i">> >>]
CorruptFile == [parse |-> FALSE, decode |-> FALSE, parts |-> << >>]
\* open(path, "wb") with nothing written: zero bytes
EmptyFile == [parse |-> FALSE, decode |-> TRUE, parts |-> << >>]
\* a second well-formed file, with another text
OtherFile == [parse |-> TRUE, decode |-> TRUE, parts |-> << <<"y", "o">> >>]

UploadContents == {GoodFile, CorruptFile}

\* session_id + "/" + filename
BlobName(session_id, filename) == session_id \o <<"/">> \o filename

Idle == "idle"
Ended == {"returned", "raised"}

\* Bounds of the model.
MaxBlobs == 2

----------------------------------------------------------------------------
(* azure_storage.AzureStorageManager.upload_file                           *)

\* no call of either service is in progress or waiting for its caller to
\* take the outcome: calls are made one at a time
Quiescent == rcv.pc = Idle /\ \A w \in DOMAIN ext : ext[w].pc = Idle

HasBlob(name) == \E i \in 1..Len(container) : container[i].name = name

\* blob_client.upload_blob(file_content, overwrite=True)
UploadBlob(blobs, name, content) ==
    IF \E i \in 1..Len(blobs) : blobs[i].name = name
    THEN [i \in 1..Len(blobs) |->
            IF blobs[i].name = name THEN [blobs[i] EXCEPT !.content = content]
            ELSE blobs[i]]
    ELSE Append(blobs, [name |-> name, content |-> content])

upload_file(session_id, filename, content) ==
    /\ Quiescent
    /\ HasBlob(BlobName(session_id, filename)) \/ Len(container) < MaxBlobs
    /\ container' = UploadBlob(container, BlobName(session_id, filename), content)
    /\ ingested' = [ingested EXCEPT
                       ![session_id] = @ /\ HasBlob(BlobName(session_id, filename))]
    /\ UNCHANGED <<documents, rcv, ext, temp, tempDir>>
    /\ UNCHANGED probeVars

\* container_client.list_blobs(name_starts_with=f"{session_id}/")
list_blobs(session_id) ==
    LET hit(b) == StartsWith(b.name, session_id \o <<"/">>)
    IN  SelectSeq(container, hit)

----------------------------------------------------------------------------
(* The documents table (models.Document) and the SQLAlchemy session.       *)

\* Document(doc_id=..., status="RECEIVED", ...): extracted_text and
\* entity_list are not given and stay NULL
NewDocument(doc_id, file_name, doc_type, url, session_id) ==
    [ doc_id |-> doc_id, doc_name |-> file_name, doc_type |-> doc_type,
      status |-> "RECEIVED", azure_blob_url |-> url, session_id |-> session_id,
      extracted_text |-> Null, entity_list |-> Null ]

\* db.query(Document).filter(doc_name ==, session_id ==, doc_type ==).first():
\* the index of the first matching row, 0 for None
FindExisting(rows, file_name, session_id, doc_type) ==
    LET hits == { i \in 1..Len(rows) :
                    /\ rows[i].doc_name = file_name
                    /\ rows[i].session_id = session_id
                    /\ rows[i].doc_type = doc_type }
    IN  IF hits = {} THEN 0 ELSE CHOOSE i \in hits : \A j \in hits : i <= j

\* db.query(Document).filter(Document.session_id == session_id).all():
\* the doc_ids of the rows of the session
RECURSIVE SessionDocIds(_, _, _)
SessionDocIds(rows, session_id, i) ==
    IF i > Len(rows) THEN << >>
    ELSE IF rows[i].session_id = session_id
         THEN <<rows[i].doc_id>> \o SessionDocIds(rows, session_id, i + 1)
         ELSE SessionDocIds(rows, session_id, i + 1)

\* str(uuid.uuid4()): an identifier no row has yet
FreshDocId(rows) == Len(rows) + 1

\* the row with primary key doc_id (rows are never deleted: row i has id i)
RowOf(doc_id) == documents[doc_id]

----------------------------------------------------------------------------
(* The call records of the two services.                                  *)

RcvInit ==
    [ pc |-> Idle, session_id |-> S_s1, blob_list |-> << >>, i |-> 1,
      results |-> << >>, cause |-> "", faults |-> FALSE, again |-> FALSE ]

\* the processes of the extractor service; Spec runs the calls of "w1"
Workers == {"w1", "w2"}

NoDirty == [set |-> FALSE, text |-> << >>, entities |-> << >>]

NoLast == [doc_id |-> 0, raw |-> << >>, called |-> FALSE, failed |-> FALSE]

ExtInit ==
    [ pc |-> Idle, session_id |-> S_s1, doc_list |-> << >>,
      i |-> 1, dirty |-> NoDirty, staged |-> {}, done |-> {},
      cause |-> "", failedDoc |-> 0, last |-> NoLast, result |-> "none" ]

----------------------------------------------------------------------------
(* receiver_service.ReceiverService.process_session_documents              *)

BlobNames(blobs) == [i \in 1..Len(blobs) |-> blobs[i].name]

\* lines 54-61: get_db(), results = [], list_blobs(...)
RcvStart(session_id) ==
    /\ Quiescent
    /\ LET listing == BlobNames(list_blobs(session_id))
       IN  rcv' = [ RcvInit EXCEPT
                      !.pc = "loop", !.session_id = session_id,
                      !.blob_list = listing,
                      !.again = ingested[session_id] ]
    /\ UNCHANGED <<container, documents, ext, temp, tempDir>>
    /\ UNCHANGED <<probeVars, ingested>>

\* line 63: iterating the paged listing raises; lines 134-138
RcvListFail ==
    /\ rcv.pc = "loop"
    /\ rcv' = [rcv EXCEPT !.pc = "raised", !.cause = "listing"]
    /\ UNCHANGED <<container, documents, ext, temp, tempDir>>
    /\ UNCHANGED <<probeVars, ingested>>

ErrorEntry(blob_name) ==
    [doc_name |-> blob_name, status |-> "error", doc_id |-> 0]

ExistsEntry(row) ==
    [doc_name |-> row.doc_name, status |-> "exists", doc_id |-> row.doc_id]

SuccessEntry(doc_id, file_name) ==
    [doc_name |-> file_name, status |-> "success", doc_id |-> doc_id]

\* the lookup of lines 72-76 keyed by the MIME based classifier's kind
ExistingDocMimeKind(rows, file_name, session_id, doc_type) ==
    FindExisting(rows, file_name, session_id,
                 get_generic_doc_type(None, file_name))

\* lines 72-76
ExistingDoc(rows, file_name, session_id, doc_type) ==
    FindExisting(rows, file_name, session_id, doc_type)

\* lines 120-122, db.rollback() with the row still in the session
SessionRollbackKeeps(rows, pending) == rows \o pending

\* lines 120-122: db.rollback() drops what the session had added (pending:
\* the rows added and not committed) and leaves the table as last committed
SessionRollback(rows, pending) == rows

\* lines 63-127: one blob of the listing. fail is where the store fails:
\* "query" (line 72), "commit" (line 108), or "none"
RcvBlob(fail) ==
    /\ rcv.pc = "loop"
    /\ rcv.i <= Len(rcv.blob_list)
    /\ LET blob_name == rcv.blob_list[rcv.i]
           file_name == BaseName(blob_name)
           doc_type == ReceiverService_get_generic_doc_type(file_name)
           existing == ExistingDoc(documents, file_name, rcv.session_id, doc_type)
           doc_id == FreshDocId(documents)
       IN  \/ /\ fail = "query"
              /\ documents' = SessionRollback(documents, << >>)
              /\ rcv' = [rcv EXCEPT !.results = Append(@, ErrorEntry(blob_name)),
                                    !.i = @ + 1, !.faults = TRUE]
           \/ /\ fail = "none"
              /\ existing # 0
              /\ documents' = documents
              /\ rcv' = [rcv EXCEPT
                           !.results = Append(@, ExistsEntry(documents[existing])),
                           !.i = @ + 1]
           \/ /\ fail = "commit"
              /\ existing = 0
              /\ documents' = SessionRollback(documents,
                    << NewDocument(doc_id, file_name, doc_type, blob_name,
                                   rcv.session_id) >>)
              /\ rcv' = [rcv EXCEPT !.results = Append(@, ErrorEntry(blob_name)),
                                    !.i = @ + 1, !.faults = TRUE]
           \/ /\ fail = "none"
              /\ existing = 0
              /\ documents' = Append(documents,
                    NewDocument(doc_id, file_name, doc_type, blob_name,
                                rcv.session_id))
              /\ rcv' = [rcv EXCEPT
                           !.results = Append(@, SuccessEntry(doc_id, file_name)),
                           !.i = @ + 1]
    /\ UNCHANGED <<container, ext, temp, tempDir>>
    /\ UNCHANGED <<probeVars, ingested>>

HasError(results) == \E k \in 1..Len(results) : results[k].status = "error"

\* lines 129-132, 137-138
RcvReturn ==
    /\ rcv.pc = "loop"
    /\ rcv.i > Len(rcv.blob_list)
    /\ rcv' = [rcv EXCEPT !.pc = "returned"]
    /\ ingested' = [ingested EXCEPT ![rcv.session_id] = ~HasError(rcv.results)]
    /\ UNCHANGED <<container, documents, ext, temp, tempDir>>
    /\ UNCHANGED probeVars

\* main, lines 149-165: the call's outcome is printed and the loop prompts
\* for the next session id
RcvMainLoop ==
    /\ rcv.pc \in Ended
    /\ rcv' = RcvInit
    /\ UNCHANGED <<container, documents, ext, temp, tempDir>>
    /\ UNCHANGED <<probeVars, ingested>>

----------------------------------------------------------------------------
(* extractor_service.ExtractorService: the extraction strategies           *)

\* what a strategy leaves when it raises instead of returning a string
Raise == <<"RAISED">>

NotExtracted == <<"NOT_EXTRACTED">>

IsSpace(c) == c \in {" ", "\n", "\t", "\r"}

RECURSIVE LStrip(_)
LStrip(s) == IF s # << >> /\ IsSpace(Head(s)) THEN LStrip(Tail(s)) ELSE s

RECURSIVE RStrip(_)
RStrip(s) ==
    IF s # << >> /\ IsSpace(s[Len(s)]) THEN RStrip(SubSeq(s, 1, Len(s) - 1))
    ELSE s

\* str.strip()
Strip(s) == RStrip(LStrip(s))

RECURSIVE Flatten(_)
Flatten(parts) ==
    IF parts = << >> THEN << >> ELSE Head(parts) \o Flatten(Tail(parts))

HasBadPart(file) == \E k \in 1..Len(file.parts) : file.parts[k] = BadPart

\* lines 109-119 with the page's try around the loop: the first unreadable
\* page ends the loop
RECURSIVE PdfPagesTextStopsAtBadPage(_)
PdfPagesTextStopsAtBadPage(pages) ==
    IF pages = << >> THEN << >>
    ELSE IF Head(pages) = BadPart THEN << >>
    ELSE IF Strip(Head(pages)) # << >>
         THEN Head(pages) \o <<"\n">> \o PdfPagesTextStopsAtBadPage(Tail(pages))
    ELSE PdfPagesTextStopsAtBadPage(Tail(pages))

\* lines 109-119: the loop over the pages
RECURSIVE PdfPagesText(_)
PdfPagesText(pages) ==
    IF pages = << >> THEN << >>
    ELSE IF Head(pages) = BadPart THEN PdfPagesText(Tail(pages))
    ELSE IF Strip(Head(pages)) # << >>
         THEN Head(pages) \o <<"\n">> \o PdfPagesText(Tail(pages))
    ELSE PdfPagesText(Tail(pages))

\* lines 98-126
extract_text_from_pdf(file) ==
    IF ~file.parse THEN << >> ELSE Strip(PdfPagesText(file.parts))

\* lines 128-136: no try/except
extract_text_from_word(file) ==
    IF ~file.parse \/ HasBadPart(file) THEN Raise ELSE Flatten(file.parts)

\* lines 138-149
extract_text_from_image(file) ==
    IF ~file.parse \/ HasBadPart(file) THEN << >> ELSE Flatten(file.parts)

\* lines 70-71: open(local_file_path, "r").read()
read_text_file(file) ==
    IF ~file.decode \/ HasBadPart(file) THEN Raise ELSE Flatten(file.parts)

\* lines 63-73: the dispatch on doc.doc_type
ExtractText(doc_type, file) ==
    IF doc_type = "PDF" THEN extract_text_from_pdf(file)
    ELSE IF doc_type = "WORD" THEN extract_text_from_word(file)
    ELSE IF doc_type = "IMAGE" THEN extract_text_from_image(file)
    ELSE IF doc_type = "EMAIL" THEN read_text_file(file)
    ELSE << >>

\* whether the open, parse, decode or read of the file fails for the strategy
\* of doc_type (OTHER opens nothing)
UnderlyingFails(doc_type, file) ==
    IF doc_type \in {"PDF", "WORD", "IMAGE"} THEN ~file.parse \/ HasBadPart(file)
    ELSE IF doc_type = "EMAIL" THEN ~file.decode \/ HasBadPart(file)
    ELSE FALSE

\* lines 151-155
refine_text_using_llm(text) == text

EntityStub ==
   <<"P", "e", "r", "s", "o", "n", ":", " ", "J", "o", "h", "n",
      " ", "D", "o", "e", "\n", "O", "r", "g", "a", "n", "i", "z",
      "a", "t", "i", "o", "n", ":", " ", "A", "c", "m", "e", " ",
      "I", "n", "c", "." >>
\* lines 157-176
extract_entities_using_llm(text) == EntityStub

\* lines 75-80: text and entity_list to store, and whether the LLM is called
RefineAlways(text) ==
    [ text |-> refine_text_using_llm(text),
      entities |-> extract_entities_using_llm(refine_text_using_llm(text)),
      called |-> TRUE ]

Refine(text) ==
    IF text # << >>
    THEN [ text |-> refine_text_using_llm(text),
           entities |-> extract_entities_using_llm(refine_text_using_llm(text)),
           called |-> TRUE ]
    ELSE [ text |-> << >>, entities |-> << >>, called |-> FALSE ]

----------------------------------------------------------------------------
(* extractor_service.ExtractorService.process_session_documents and main   *)

\* the file at os.path.join("temp", doc_name); a missing file cannot be
\* opened by any reader
ReadTemp(name) ==
    IF \E f \in temp : f.name = name
    THEN (CHOOSE f \in temp : f.name = name).content
    ELSE CorruptFile

WriteTemp(name, content) ==
    {f \in temp : f.name # name} \cup {[name |-> name, content |-> content]}

BlobContent(name) ==
    container[CHOOSE i \in 1..Len(container) : container[i].name = name].content

\* lines 95-96, finally: db.close() ends the transaction without a commit,
\* so the rows stay as last committed
SessionCloseFlushes(rows, doc_id, dirty) ==
    IF dirty.set
    THEN [rows EXCEPT ![doc_id].extracted_text = dirty.text,
                      ![doc_id].entity_list = dirty.entities]
    ELSE rows

SessionClose(rows, doc_id, dirty) == rows

\* lines 83-86: doc.extracted_text, doc.entity_list, db.commit()
CommitDoc(rows, doc_id, dirty) ==
    [rows EXCEPT ![doc_id].extracted_text = dirty.text,
                 ![doc_id].entity_list = dirty.entities]

\* lines 44-50: get_db() and the query of the session's documents; ok is
\* whether the query succeeds. Lines 92-96 when it does not.
ExtBegin(w, session_id, ok) ==
    /\ ext[w].pc = Idle
    /\ ext' = [ext EXCEPT ![w] =
                 [ ExtInit EXCEPT
                     !.pc = IF ok THEN "loop" ELSE "raised",
                     !.cause = IF ok THEN "" ELSE "listing",
                     !.session_id = session_id,
                     !.doc_list = IF ok THEN SessionDocIds(documents, session_id, 1)
                                  ELSE << >> ]]
    /\ UNCHANGED <<container, documents, rcv, temp, tempDir>>
    /\ UNCHANGED <<probeVars, ingested>>

\* main, lines 191-192: the process of the pipeline makes its calls one at a
\* time
ExtStart(w, session_id, ok) == Quiescent /\ ExtBegin(w, session_id, ok)

\* lines 52-60: makedirs, open(local_file_path, "wb"), download_blob();
\* ok is whether the download succeeds
ExtDownload(w, ok) ==
    /\ ext[w].pc = "loop"
    /\ ext[w].i <= Len(ext[w].doc_list)
    /\ LET doc == RowOf(ext[w].doc_list[ext[w].i])
           blob == BlobName(ext[w].session_id, doc.doc_name)
       IN  /\ ok => HasBlob(blob)
           /\ tempDir' = TRUE
           /\ IF ok
              THEN /\ temp' = WriteTemp(doc.doc_name, BlobContent(blob))
                   /\ ext' = [ext EXCEPT ![w].pc = "staged",
                                         ![w].staged = @ \cup {doc.doc_name}]
              ELSE /\ temp' = WriteTemp(doc.doc_name, EmptyFile)
                   /\ ext' = [ext EXCEPT ![w].pc = "raised",
                                         ![w].cause = "download",
                                         ![w].failedDoc = doc.doc_id]
    /\ UNCHANGED <<container, documents, rcv>>
    /\ UNCHANGED <<probeVars, ingested>>

\* lines 62-84: the strategy, the LLM calls, the assignments to doc
ExtExtract(w) ==
    /\ ext[w].pc = "staged"
    /\ LET doc == RowOf(ext[w].doc_list[ext[w].i])
           file == ReadTemp(doc.doc_name)
           text == ExtractText(doc.doc_type, file)
           out == Refine(text)
           failed == UnderlyingFails(doc.doc_type, file)
       IN  IF text = Raise
           THEN ext' = [ext EXCEPT
                             ![w].pc = "raised", ![w].cause = "extract",
                             ![w].last = [doc_id |-> doc.doc_id, raw |-> << >>,
                                          called |-> FALSE, failed |-> TRUE]]
           ELSE ext' = [ext EXCEPT
                             ![w].pc = "dirty",
                             ![w].dirty = [set |-> TRUE, text |-> out.text,
                                           entities |-> out.entities],
                             ![w].last = [doc_id |-> doc.doc_id, raw |-> text,
                                          called |-> out.called,
                                          failed |-> failed]]
    /\ UNCHANGED <<container, documents, rcv, temp, tempDir>>
    /\ UNCHANGED <<probeVars, ingested>>

\* lines 85-87: db.commit(), db.refresh(doc); ok is whether the commit
\* succeeds. Lines 92-96 when it does not.
ExtCommit(w, ok) ==
    /\ ext[w].pc = "dirty"
    /\ LET doc_id == ext[w].doc_list[ext[w].i]
       IN  IF ok
           THEN /\ documents' = CommitDoc(documents, doc_id, ext[w].dirty)
                /\ ext' = [ext EXCEPT ![w].pc = "loop", ![w].i = @ + 1,
                                      ![w].dirty = NoDirty,
                                      ![w].done = @ \cup {doc_id}]
           ELSE /\ documents' = SessionClose(documents, doc_id, ext[w].dirty)
                /\ ext' = [ext EXCEPT ![w].pc = "raised", ![w].cause = "commit",
                                      ![w].dirty = NoDirty]
    /\ UNCHANGED <<container, rcv, temp, tempDir>>
    /\ UNCHANGED <<probeVars, ingested>>

\* lines 89-90, 95-96
ExtReturn(w) ==
    /\ ext[w].pc = "loop"
    /\ ext[w].i > Len(ext[w].doc_list)
    /\ ext' = [ext EXCEPT ![w].pc = "returned", ![w].result = "success"]
    /\ UNCHANGED <<container, documents, rcv, temp, tempDir>>
    /\ UNCHANGED <<probeVars, ingested>>

\* main, lines 191-196: the call's outcome is logged and the loop prompts
\* for the next session id
ExtMainLoop(w) ==
    /\ ext[w].pc \in Ended
    /\ ext' = [ext EXCEPT ![w] = ExtInit]
    /\ UNCHANGED <<container, documents, rcv, temp, tempDir>>
    /\ UNCHANGED <<probeVars, ingested>>

\* main, lines 188-189 and 197-206: 'exit' leaves the loop and the finally
\* block empties and removes the directory "temp"; the service may be
\* started again later
ExtMainExit(w) ==
    /\ ext[w].pc = Idle
    /\ tempDir
    /\ temp' = {}
    /\ tempDir' = FALSE
    /\ UNCHANGED <<container, documents, rcv, ext>>
    /\ UNCHANGED <<probeVars, ingested>>

----------------------------------------------------------------------------
(* The pipeline: uploads, one receiver and one extractor process.          *)

PipelineInit ==
    /\ container = << >>
    /\ documents = << >>
    /\ rcv = RcvInit
    /\ ext = [w \in Workers |-> ExtInit]
    /\ temp = {}
    /\ tempDir = FALSE
    /\ ingested = [s \in SessionIds |-> FALSE]

\* no call of the classifiers in progress
ClassifierIdle ==
    /\ cMime = None
    /\ cFile = None
    /\ cOut = NotCalled
    /\ cBlob = NotCalled

\* no dispatch outside the pipeline in progress
ExtractIdle ==
    /\ xKind = "OTHER"
    /\ xFile = EmptyFile
    /\ xOut = NotExtracted

Init ==
    /\ ClassifierIdle
    /\ ExtractIdle
    /\ PipelineInit

Next ==
    \/ \E s \in SessionIds, n \in UploadNames, c \in UploadContents :
          upload_file(s, n, c)
    \/ \E s \in SessionIds : RcvStart(s)
    \/ RcvListFail
    \/ \E fail \in {"none", "query", "commit"} : RcvBlob(fail)
    \/ RcvReturn
    \/ RcvMainLoop
    \/ \E s \in SessionIds, ok \in BOOLEAN : ExtStart("w1", s, ok)
    \/ \E ok \in BOOLEAN : ExtDownload("w1", ok)
    \/ ExtExtract("w1")
    \/ \E ok \in BOOLEAN : ExtCommit("w1", ok)
    \/ ExtReturn("w1")
    \/ ExtMainLoop("w1")
    \/ ExtMainExit("w1")

Spec == Init /\ [][Next]_vars

----------------------------------------------------------------------------
(* The classifier on its own: every input of the bounded sets, one call.   *)

ClassifyInit ==
    /\ cMime \in MimeInputs
    /\ cFile \in FileInputs
    /\ cOut = NotCalled
    /\ cBlob = NotCalled
    /\ ExtractIdle
    /\ PipelineInit

Classify ==
    /\ cOut = NotCalled
    /\ cOut' = get_generic_doc_type(cMime, cFile)
    /\ UNCHANGED <<cMime, cFile, cBlob>>
    /\ UNCHANGED <<extractVars, pipelineVars>>

\* receiver_service lines 25-42 on the same filename; blob_name.lower()
\* (line 29) raises AttributeError when the filename is None
ClassifyBlobName ==
    /\ cBlob = NotCalled
    /\ cBlob' = IF cFile = None THEN "RAISED"
                ELSE ReceiverService_get_generic_doc_type(cFile)
    /\ UNCHANGED <<cMime, cFile, cOut>>
    /\ UNCHANGED <<extractVars, pipelineVars>>

ClassifyNext == Classify \/ ClassifyBlobName

SpecClassify == ClassifyInit /\ [][ClassifyNext]_vars

----------------------------------------------------------------------------
(* The dispatch of extractor_service on doc.doc_type, applied to one        *)
(* staged file: every kind, files that open or not, decode or not, with     *)
(* up to MaxPages pages (paragraphs, chunks) each readable or not.          *)

MaxPages == 2

\* what a page can hold: unreadable, text, text after or before white space,
\* white space only, nothing
PageTexts == {BadPart, <<"a">>, <<" ", "b">>, <<"c", " ">>, <<"\n">>, << >>}

PageSeqs == UNION {[1..n -> PageTexts] : n \in 0..MaxPages}

ExtractFiles == [parse : BOOLEAN, decode : BOOLEAN, parts : PageSeqs]

ExtractInit ==
    /\ xKind \in Kinds
    /\ xFile \in ExtractFiles
    /\ xOut = NotExtracted
    /\ ClassifierIdle
    /\ PipelineInit

\* extractor_service lines 62-73 on the file at local_file_path
Extract ==
    /\ xOut = NotExtracted
    /\ xOut' = ExtractText(xKind, xFile)
    /\ UNCHANGED <<xKind, xFile>>
    /\ UNCHANGED <<classifierVars, pipelineVars>>

ExtractNext == Extract

SpecExtract == ExtractInit /\ [][ExtractNext]_vars

----------------------------------------------------------------------------
(* Two processes of extractor_service started in the same working          *)
(* directory, "w1" asked for session s1 and "w2" for session s2, each       *)
(* session holding one ingested document. The steps of the two calls        *)
(* interleave at the file and store operations.                             *)

ConcurrentNames == {F_a_pdf, F_c_txt}
ConcurrentContents == {GoodFile, OtherFile}

SessionOf(w) == IF w = "w1" THEN S_s1 ELSE S_s2

\* the container and the table after one upload to each session and one
\* call of the receiver for each
ConcurrentInit ==
    /\ \E n1 \in ConcurrentNames, n2 \in ConcurrentNames,
          c1 \in ConcurrentContents, c2 \in ConcurrentContents :
          /\ container = << [name |-> BlobName(S_s1, n1), content |-> c1],
                            [name |-> BlobName(S_s2, n2), content |-> c2] >>
          /\ documents =
                << NewDocument(1, n1, ReceiverService_get_generic_doc_type(n1),
                               BlobName(S_s1, n1), S_s1),
                   NewDocument(2, n2, ReceiverService_get_generic_doc_type(n2),
                               BlobName(S_s2, n2), S_s2) >>
    /\ rcv = RcvInit
    /\ ext = [w \in Workers |-> ExtInit]
    /\ temp = {}
    /\ tempDir = FALSE
    /\ ingested = [s \in SessionIds |-> TRUE]
    /\ ClassifierIdle
    /\ ExtractIdle

ConcurrentNext ==
    \E w \in Workers :
        \/ \E ok \in BOOLEAN : ExtBegin(w, SessionOf(w), ok)
        \/ \E ok \in BOOLEAN : ExtDownload(w, ok)
        \/ ExtExtract(w)
        \/ \E ok \in BOOLEAN : ExtCommit(w, ok)
        \/ ExtReturn(w)
        \/ ExtMainLoop(w)
        \/ ExtMainExit(w)

SpecConcurrent == ConcurrentInit /\ [][ConcurrentNext]_vars

----------------------------------------------------------------------------
(* Derived views of a call of the extractor.                               *)

\* the names of the files the call has downloaded into "temp" so far
Staged(w) == ext[w].staged

\* the doc_ids the call has committed so far
Committed(w) == ext[w].done

InTemp(name) == \E f \in temp : f.name = name

----------------------------------------------------------------------------
(* Claims about the classifier (SpecClassify).                             *)

MappedExtensions ==
    {X_pdf, X_doc, X_docx, X_txt, X_jpg, X_jpeg, X_png, X_gif, X_jfif, X_eml}

\* no rule of get_generic_doc_type applies to (mime_type, filename)
NoRuleMatches(mime_type, filename) ==
    LET mt == NormMime(mime_type)
    IN  /\ ~IsEmailRule(mt, filename)
        /\ ~IsPdfRule(mt)
        /\ ~IsWordRule(mt)
        /\ ~IsImageRule(mt)
        /\ ~IsTextRule(mt)
        /\ UsesExtension(mt, filename)
              => SplitExt(Lower(filename)) \notin MappedExtensions

\* C3: get_generic_doc_type(mime_type, filename) is total: for every
\* mime_type and filename, absent and empty included, the value returned is
\* one of the six kinds, and input that matches no rule returns OTHER.
C3_ClassifierTotal ==
    cOut # NotCalled =>
        /\ cOut \in Kinds
        /\ NoRuleMatches(cMime, cFile) => cOut = "OTHER"

\* C3 witness: both arguments absent, no rule matches, OTHER is returned.
C3_Witness == cMime = None /\ cFile = None /\ cOut = "OTHER"

HasEmailPrefix(filename) == Truthy(filename) /\ StartsWith(filename, L_Email_)

\* C4 as stated: with mime type application/pdf every filename gives PDF,
\* and with mime type image/jpeg every filename gives IMAGE.
C4_AnyFilename ==
    cOut # NotCalled =>
        /\ cMime = M_application_pdf => cOut = "PDF"
        /\ cMime = M_image_jpeg => cOut = "IMAGE"

\* C4 amended: with mime type application/pdf (image/jpeg) every filename
\* that does not begin with "Email_", absent and empty included, gives PDF
\* (IMAGE); a filename that begins with "Email_" gives EMAIL for both.
C4_UnlessEmailPrefix ==
    (cOut # NotCalled /\ cMime \in {M_application_pdf, M_image_jpeg}) =>
        IF HasEmailPrefix(cFile) THEN cOut = "EMAIL"
        ELSE /\ cMime = M_application_pdf => cOut = "PDF"
             /\ cMime = M_image_jpeg => cOut = "IMAGE"

\* C4 witness: application/pdf with a .txt filename is classified PDF.
C4_Witness == cMime = M_application_pdf /\ cFile = F_c_txt /\ cOut = "PDF"

----------------------------------------------------------------------------
(* Claims about the pipeline (Spec).                                       *)

\* C1: when the download of document K fails, the call still returns, every
\* other document of the session is extracted and committed by the call,
\* and the failure is reported for K alone.
C1_DownloadFailureIsolated ==
    \A w \in Workers :
        (ext[w].pc \in Ended /\ ext[w].failedDoc # 0) =>
            /\ ext[w].pc = "returned"
            /\ \A k \in 1..Len(ext[w].doc_list) :
                  ext[w].doc_list[k] # ext[w].failedDoc
                      => ext[w].doc_list[k] \in Committed(w)

\* no two rows share (session_id, doc_name, doc_type)
UniqueKey ==
    \A i, j \in 1..Len(documents) :
        ( /\ documents[i].session_id = documents[j].session_id
          /\ documents[i].doc_name = documents[j].doc_name
          /\ documents[i].doc_type = documents[j].doc_type ) => i = j

\* a call of the receiver for a session whose listing has not changed since
\* a call that returned no error entry reports "exists"
\* for every blob, in listing order, unless the store fails during the call
RerunReportsExists ==
    (rcv.again /\ rcv.pc \in {"loop", "returned"}) =>
        /\ \A k \in 1..Len(rcv.results) : rcv.results[k].status # "success"
        /\ ~rcv.faults =>
              \A k \in 1..Len(rcv.results) :
                  /\ rcv.results[k].status = "exists"
                  /\ rcv.results[k].doc_name = BaseName(rcv.blob_list[k])
        /\ rcv.pc = "returned" => Len(rcv.results) = Len(rcv.blob_list)

\* C2: ingestion is idempotent. A call of the receiver for a session whose
\* listing has not changed since a call that returned no error entry
\* creates no row and changes no row, extracted_text and
\* entity_list included, and returns one "exists" entry per blob; and no two
\* rows ever share (session_id, doc_name, doc_type).
C2_IdempotentIngestion ==
    /\ [](UniqueKey /\ RerunReportsExists)
    /\ [][(rcv.again /\ rcv.pc = "loop") => documents' = documents]_vars

\* C2 witness: a call for a session with an unchanged listing has returned, with two
\* entries, while a row already holds extracted text.
C2_Witness ==
    /\ rcv.again
    /\ rcv.pc = "returned"
    /\ ~rcv.faults
    /\ Len(rcv.results) = 2
    /\ \E i \in 1..Len(documents) :
          /\ documents[i].session_id = rcv.session_id
          /\ documents[i].extracted_text \notin {Null, << >>}

\* C5: a document of kind OTHER, or one whose raw text is empty, is committed
\* with extracted_text and entity_list both empty, and the LLM steps are not
\* called for it.
C5_EmptyTextSkipsLlm ==
    \A w \in Workers :
        LET d == ext[w].last
        IN  /\ (ext[w].pc = "dirty" /\ RowOf(d.doc_id).doc_type = "OTHER")
                  => d.raw = << >>
            /\ (ext[w].pc = "dirty" /\ d.raw = << >>) =>
                  /\ ext[w].dirty.text = << >>
                  /\ ext[w].dirty.entities = << >>
                  /\ ~d.called
            /\ ( /\ d.doc_id \in Committed(w)
                 /\ (RowOf(d.doc_id).doc_type = "OTHER" \/ d.raw = << >>) ) =>
                  /\ RowOf(d.doc_id).extracted_text = << >>
                  /\ RowOf(d.doc_id).entity_list = << >>
                  /\ ~d.called

\* C5 witness: a document of kind OTHER has been committed by the call, once
\* another document of the session had its text extracted.
C5_Witness ==
    \E w \in Workers :
        /\ ext[w].last.doc_id \in Committed(w)
        /\ RowOf(ext[w].last.doc_id).doc_type = "OTHER"
        /\ RowOf(ext[w].last.doc_id).extracted_text = << >>
        /\ \E i \in 1..Len(documents) :
              documents[i].extracted_text \notin {Null, << >>}

\* C6: every document the call has committed has status PROCESSED.
C6_ProcessedAfterCommit ==
    \A w \in Workers :
        \A doc_id \in Committed(w) : RowOf(doc_id).status = "PROCESSED"

\* C7: once a call of the extractor has ended, "temp" holds no file the call
\* staged, and the directory is gone.
C7_StagingReleased ==
    \A w \in Workers :
        ext[w].pc \in Ended =>
            /\ \A name \in Staged(w) : ~InTemp(name)
            /\ ~tempDir

\* C8: no extraction strategy raises: a call is never ended by the strategy
\* of a document whose file cannot be opened, parsed, decoded or read.
C8_StrategiesNeverRaise ==
    \A w \in Workers : ext[w].cause # "extract"

\* C9: extracted_text and entity_list are written together: in every row
\* both are NULL or neither is, and a document whose extraction failed in a
\* call that the store did not fail is committed with both empty.
C9_WrittenTogether ==
    /\ \A i \in 1..Len(documents) :
          (documents[i].extracted_text = Null) <=> (documents[i].entity_list = Null)
    /\ \A w \in Workers :
          ( /\ ext[w].pc \in Ended
            /\ ext[w].last.failed
            /\ ext[w].cause # "commit" ) =>
              /\ RowOf(ext[w].last.doc_id).extracted_text = << >>
              /\ RowOf(ext[w].last.doc_id).entity_list = << >>

\* C10: a call that fails changes no row in failing. When the listing of the
\* session cannot be retrieved the call raises with nothing created or
\* modified; when a later failure ends the call, the rows committed before
\* keep their values and the uncommitted change of the current document
\* does not reach the table. A call that raised returns no result.
C10_FailureLeavesRows ==
    /\ [](\A w \in Workers : ext[w].pc = "raised" =>
              ext[w].result = "none" /\ ~ext[w].dirty.set)
    /\ [][ /\ \A w \in Workers :
                (ext[w].pc # "raised" /\ ext'[w].pc = "raised")
                    => documents' = documents
           /\ (rcv.pc # "raised" /\ rcv'.pc = "raised")
                    => documents' = documents ]_vars

\* C10 witness: a commit failure has ended a call that had already committed
\* an earlier document with its text.
C10_Witness ==
    \E w \in Workers :
        /\ ext[w].pc = "raised"
        /\ ext[w].cause = "commit"
        /\ \E doc_id \in Committed(w) :
              RowOf(doc_id).extracted_text \notin {Null, << >>}

\* the entries of a call of the receiver follow the listing: entry k is for
\* blob k, with status success, exists or error; an error entry names the
\* blob, the others name the file and the row they stand for
EntriesFollowListing ==
    rcv.pc \in {"loop", "returned"} =>
        /\ Len(rcv.results) = rcv.i - 1
        /\ rcv.pc = "returned" => Len(rcv.results) = Len(rcv.blob_list)
        /\ \A k \in 1..Len(rcv.results) :
              LET e == rcv.results[k]
              IN  /\ e.status \in {"success", "exists", "error"}
                  /\ e.status = "error" => e.doc_name = rcv.blob_list[k]
                  /\ e.status # "error" =>
                        /\ e.doc_name = BaseName(rcv.blob_list[k])
                        /\ e.doc_id \in 1..Len(documents)
                        /\ RowOf(e.doc_id).doc_name = e.doc_name
                        /\ RowOf(e.doc_id).session_id = rcv.session_id

RECURSIVE FirstMatchWins(_)
FirstMatchWins(steps) ==
    IF steps = << >> THEN "OTHER"
    ELSE IF Head(steps)[1] THEN Head(steps)[2]
    ELSE FirstMatchWins(Tail(steps))

\* the seven-step resolution order stated for the classifier, on a mime type
\* m already lower-cased ("" when absent) and a filename f; textStep is the
\* reading of step 5; step 6 looks the extension of the lower-cased filename
\* up among the mapped ones, step 7 is the OTHER of FirstMatchWins
ResolutionOrder(m, f, textStep) ==
    LET present == f # None /\ f # << >>
        suffix == IF present THEN SplitExt(Lower(f)) ELSE << >>
        generic == present /\ m \in {<< >>, L_octet_stream}
    IN  FirstMatchWins(<<
          << m = L_email \/ (present /\ Len(f) >= 6 /\ SubSeq(f, 1, 6) = L_Email_), "EMAIL" >>,
          << Contains(L_pdf, m), "PDF" >>,
          << \E w \in {L_word, L_wordprocessing, L_msword, L_wordprocessingml} :
                Contains(w, m), "WORD" >>,
          << \E g \in {L_image_, L_jpeg, L_jpg, L_png, L_gif, L_bmp, L_tiff} :
                Contains(g, m), "IMAGE" >>,
          << textStep \/ m = L_application_txt, "TEXT" >>,
          << generic /\ suffix = X_pdf, "PDF" >>,
          << generic /\ suffix \in {X_doc, X_docx}, "WORD" >>,
          << generic /\ suffix = X_txt, "TEXT" >>,
          << generic /\ suffix \in {X_jpg, X_jpeg, X_png, X_gif, X_jfif}, "IMAGE" >>,
          << generic /\ suffix = X_eml, "EMAIL" >> >>)

LoweredMime == IF cMime \in {None, << >>} THEN << >> ELSE Lower(cMime)

\* C12 as stated: get_generic_doc_type returns the kind of the seven-step
\* resolution order applied first-match-wins to the lower-cased mime type,
\* step 5 being "mime type starts with text/ or equals application/txt".
C12_StepFiveStartsWith ==
    cOut # NotCalled =>
        cOut = ResolutionOrder(LoweredMime, cFile,
                               /\ Len(LoweredMime) >= 5
                               /\ SubSeq(LoweredMime, 1, 5) = L_text_)

\* C12 amended: get_generic_doc_type returns the kind of the seven-step
\* resolution order applied first-match-wins to the lower-cased mime type,
\* step 5 being "mime type contains text/ or equals application/txt".
C12_StepFiveContains ==
    cOut # NotCalled =>
        cOut = ResolutionOrder(LoweredMime, cFile,
                               \E k \in 1..(Len(LoweredMime) - 4) :
                                   SubSeq(LoweredMime, k, k + 4) = L_text_)

\* C12 witness: a mime type with text/ inside but not in front, no other
\* rule matching, is classified TEXT.
C12_Witness == cMime = M_x_text /\ cFile = F_notes_xyz /\ cOut = "TEXT"

\* the contents of a file read as text
Contents(file) == Flatten(file.parts)

Decodes(file) == file.decode /\ \A k \in 1..Len(file.parts) : file.parts[k] # BadPart

\* C13: the dispatch gives every kind its own strategy: for a document of
\* kind TEXT, as for one of kind EMAIL, the text handed to refinement is the
\* staged file's contents verbatim, and kind OTHER gets the empty text.
C13_TextAndEmailVerbatim ==
    xOut # NotExtracted =>
        /\ (xKind \in {"TEXT", "EMAIL"} /\ Decodes(xFile)) => xOut = Contents(xFile)
        /\ xKind = "OTHER" => xOut = << >>

Readable(page) == page # BadPart

Blank(page) == \A k \in 1..Len(page) : page[k] \in {" ", "\n", "\t", "\r"}

\* the texts, in order, with a newline between each two
RECURSIVE JoinLines(_)
JoinLines(texts) ==
    IF texts = << >> THEN << >>
    ELSE IF Len(texts) = 1 THEN texts[1]
    ELSE texts[1] \o <<"\n">> \o JoinLines(Tail(texts))

\* the positions of s that hold something else than white space
Inked(s) == {k \in 1..Len(s) : ~Blank(<<s[k]>>)}

Last(S) == CHOOSE k \in S : \A j \in S : j <= k
First(S) == CHOOSE k \in S : \A j \in S : k <= j

TrailingTrimmed(s) == IF Inked(s) = {} THEN << >> ELSE SubSeq(s, 1, Last(Inked(s)))

BothEndsTrimmed(s) ==
    IF Inked(s) = {} THEN << >> ELSE SubSeq(s, First(Inked(s)), Last(Inked(s)))

PdfOpened == xOut # NotExtracted /\ xKind = "PDF" /\ xFile.parse

\* C14 as stated: for a PDF that opens, pages readable or not, the result of
\* extract_text_from_pdf is the texts of the readable pages, in page order,
\* separated by newlines, with only trailing white space trimmed; the call
\* does not raise.
C14_ReadablePagesTrailingTrim ==
    PdfOpened =>
        /\ xOut # Raise
        /\ xOut = TrailingTrimmed(JoinLines(SelectSeq(xFile.parts, Readable)))

NotBlank(page) == Readable(page) /\ ~Blank(page)

\* C14 amended: for a PDF that opens, pages readable or not, the result of
\* extract_text_from_pdf is the texts of the readable pages that hold more
\* than white space, in page order, separated by newlines, with white space
\* trimmed at both ends of the result; an unreadable page contributes
\* nothing and the pages after it are still extracted; the call does not
\* raise.
C14_NonBlankPagesBothEndsTrim ==
    PdfOpened =>
        /\ xOut # Raise
        /\ xOut = BothEndsTrimmed(JoinLines(SelectSeq(xFile.parts, NotBlank)))

\* C14 witness: a PDF whose first page is unreadable and whose second page
\* holds " b" gives "b".
C14_Witness ==
    /\ PdfOpened
    /\ xFile.parts = << BadPart, <<" ", "b">> >>
    /\ xOut = <<"b">>

\* both entry points have classified the filename, the MIME-based one
\* without a MIME type
BothClassified ==
    /\ cOut # NotCalled
    /\ cBlob # NotCalled
    /\ cMime = None
    /\ cFile # None

TxtExtension == SplitExt(Lower(cFile)) = X_txt

\* C15 as stated: for every filename the blob-name variant returns the kind
\* the MIME-based variant returns without a MIME type, unless the extension
\* is '.txt', where the former returns EMAIL and the latter TEXT.
C15_AgreeExceptTxt ==
    BothClassified =>
        IF TxtExtension THEN cBlob = "EMAIL" /\ cOut = "TEXT"
        ELSE cBlob = cOut

\* C15 amended: for every filename that does not begin with "Email_" the
\* two variants return the same kind, unless the extension is '.txt', where
\* the blob-name variant returns EMAIL and the MIME-based one TEXT; for a
\* filename that begins with "Email_" the MIME-based variant returns EMAIL
\* whatever the extension, and the blob-name variant agrees only for the
\* extensions '.txt' and '.eml'.
C15_AgreeExceptTxtAndEmailPrefix ==
    BothClassified =>
        IF HasEmailPrefix(cFile)
        THEN /\ cOut = "EMAIL"
             /\ cBlob = cOut <=> SplitExt(Lower(cFile)) \in {X_txt, X_eml}
        ELSE IF TxtExtension THEN cBlob = "EMAIL" /\ cOut = "TEXT"
        ELSE cBlob = cOut

\* C15 witness: "c.txt" is EMAIL for the blob-name variant and TEXT for the
\* MIME-based one.
C15_Witness ==
    /\ cMime = None
    /\ cFile = F_c_txt
    /\ cBlob = "EMAIL"
    /\ cOut = "TEXT"

\* what the pipeline persists for a row when the file it reads is the one
\* it downloaded for that row (no blob is replaced while the two runs are
\* in progress)
OwnText(row) ==
    Refine(ExtractText(row.doc_type,
                       BlobContent(BlobName(row.session_id, row.doc_name)))).text

\* C16: two runs for different sessions in progress at once share no
\* staging: the file a run reads for a document is the content the same run
\* downloaded for it, also when both sessions hold a document of the same
\* name, so no row ever holds text extracted from the other session's
\* document: a row's text is unset, empty, or the text of its own blob.
C16_NeverOtherSessionsText ==
    \A i \in 1..Len(documents) :
        documents[i].extracted_text \in {Null, << >>, OwnText(documents[i])}

====
